---- MODULE Spec2Model ----
(***************************************************************************)
(* ARCHIVIS external drive scanner (scan_external_drives.py).              *)
(*                                                                         *)
(* The module models class DriveScanner: the name allocator, the registry  *)
(* lookup, the registration of new drives, the bounded-depth directory     *)
(* scanner and the per-volume loop of scan_all_drives.                     *)
(*                                                                         *)
(* Strings whose characters matter (drive names, ids, prompt responses)    *)
(* are sequences of one-character strings, so that str.upper() and         *)
(* str.strip() are computed character by character.  Capacities are        *)
(* counted in GiB (2^30 bytes), so that one TiB is 1024 units.             *)
(***************************************************************************)
EXTENDS Integers, Sequences, FiniteSets, TLC

VARIABLES
    naming_rules,   \* self.naming_rules: thresholds and the three name pools
    registry,       \* self.registry['locations'], the in-memory registry
    disk,           \* the content of drives.json (DRIVES_REGISTRY_FILE)
    snapshots,      \* the snapshot files: filename -> content
    drives,         \* the list returned by get_external_drives() in this run
    idx,            \* position of the for loop of scan_all_drives in drives
    pc,             \* where the run of scan_all_drives stands
    existing_entry, \* index in registry found by find_drive_in_registry, 0 = None
    proposed_name,  \* result of _get_available_name for the current volume
    drive_id,       \* the id the current volume resolved to
    directories,    \* result of scan_directory_tree for the current volume
    tree,           \* the directory tree under the mount point
    max_depth,      \* the max_depth argument of the last scan_directory_tree call
    now,            \* the clock read by datetime.utcnow() / datetime.now()
    runs            \* number of program runs started so far

vars == <<naming_rules, registry, disk, snapshots, drives, idx, pc,
          existing_entry, proposed_name, drive_id, directories, tree,
          max_depth, now, runs>>

\* ------------------------------------------------------------------ bounds

\* Number of program runs (process starts) explored.
MaxRuns == 2
\* Longest list of volumes get_external_drives returns in one run.
MaxDrives == 3
\* Number of nodes (directories and files, the root included) of a scanned tree.
MaxNodes == 4
\* Largest max_depth argument given to scan_directory_tree in SpecScan.
MaxDepthArg == 2
\* The clock advances by one at each reading; so many readings fall on one
\* calendar day.
TicksPerDay == 4

\* ------------------------------------------------------- program constants

\* 1024 ** 4 bytes, in GiB units (capacity_bytes / (1024 ** 4)).
TiB == 1024
\* max_depth=2 in scan_all_drives.
ScanDepth == 2

\* ----------------------------------------------------------------- strings

\* The value None of Optional[str]; no name, since names are made of
\* one-character strings.
None == <<"None">>

\* str.upper() on one character.
UpperChar(c) ==
    CASE c = "n" -> "N"
      [] c = "s" -> "S"
      [] c = "t" -> "T"
      [] c = "x" -> "X"
      [] OTHER -> c

\* str.upper()
RECURSIVE upper(_)
upper(s) ==
    IF s = <<>> THEN <<>> ELSE <<UpperChar(Head(s))>> \o upper(Tail(s))

\* str.lstrip() for the whitespace character " "
RECURSIVE lstrip(_)
lstrip(s) ==
    IF s # <<>> /\ Head(s) = " " THEN lstrip(Tail(s)) ELSE s

\* str.rstrip() for the whitespace character " "
RECURSIVE rstrip(_)
rstrip(s) ==
    IF s # <<>> /\ s[Len(s)] = " " THEN rstrip(SubSeq(s, 1, Len(s) - 1)) ELSE s

\* str.strip()
strip(s) == rstrip(lstrip(s))

\* --------------------------------------------------- configuration, inputs

\* naming_rules.json documents the model is run with.  Pools hold names in
\* mixed case, names that differ only in case, and names shared by two pools;
\* the second document has equal thresholds, so its medium tier is never
\* selected.
RuleSets ==
    { [large_drive_threshold_tb |-> 4, medium_drive_threshold_tb |-> 1,
       large_names  |-> << <<"T">>, <<"x">> >>,
       medium_names |-> << <<"n">>, <<"N">>, <<"x">> >>,
       small_names  |-> << <<"s">> >>],
      [large_drive_threshold_tb |-> 1, medium_drive_threshold_tb |-> 1,
       large_names  |-> << <<"S">>, <<"t">> >>,
       medium_names |-> << <<"n">> >>,
       small_names  |-> << <<"s">>, <<"T">> >>] }

\* Capacities (GiB): below, at and above the thresholds of RuleSets.
Capacities == {512, 1024, 2048, 4096}

\* The physical volumes that may be attached: volume UUID and capacity.  One
\* volume has no VolumeUUID (info.get('VolumeUUID', '')).
Volumes ==
    { [volume_uuid |-> "U1", capacity_bytes |-> 4096],
      [volume_uuid |-> "U2", capacity_bytes |-> 512],
      [volume_uuid |-> "",   capacity_bytes |-> 2048] }

\* The device identifier of the i-th volume diskutil lists: identifiers are
\* handed out in attachment order, so a volume's identifier may differ from
\* one run to the next.
DeviceIdentifier(i) ==
    <<"disk2s1", "disk3s1", "disk4s1", "disk5s1", "disk6s1">>[i]

\* Lines typed at the prompt of _confirm_name.
Responses == { <<>>, <<" ">>, <<" ", "n">>, <<"s", " ">> }

\* ------------------------------------------------------------ NameAllocator

\* _get_used_names
get_used_names(reg) == { reg[i].id : i \in 1..Len(reg) }

\* CapacityAtLeast with the comparison > in place of >=.
CapacityAbove(capacity_bytes, threshold_tb) ==
    capacity_bytes > threshold_tb * TiB

\* capacity_tb >= threshold, with capacity_tb = capacity_bytes / (1024 ** 4):
\* the division is exact, so the test is capacity_bytes >= threshold * 1024^4.
CapacityAtLeast(capacity_bytes, threshold_tb) ==
    capacity_bytes >= threshold_tb * TiB

\* The if/elif/else of _get_available_name: the pool of the selected tier.
name_pool(rules, capacity_bytes) ==
    IF CapacityAtLeast(capacity_bytes, rules.large_drive_threshold_tb)
    THEN rules.large_names
    ELSE IF CapacityAtLeast(capacity_bytes, rules.medium_drive_threshold_tb)
         THEN rules.medium_names
         ELSE rules.small_names

\* The for loop of _get_available_name: the first name of the pool whose
\* upper() is not used, None when the loop runs out.
RECURSIVE first_available(_, _)
first_available(pool, used_names) ==
    IF pool = <<>> THEN None
    ELSE IF upper(Head(pool)) \notin used_names THEN Head(pool)
         ELSE first_available(Tail(pool), used_names)

\* _get_available_name
get_available_name(rules, reg, capacity_bytes) ==
    first_available(name_pool(rules, capacity_bytes), get_used_names(reg))

\* --------------------------------------------------------- IdentityResolver

\* The value a pass of the while loop of _confirm_name yields when it
\* rejects the response and prompts again.
Reprompt == <<"continue">>

\* confirm_name without the test `custom_name in self._get_used_names()`.
confirm_name_unchecked(proposed, response, reg) ==
    LET r == strip(response)
    IN  IF r = <<>> THEN upper(proposed) ELSE upper(r)

\* One pass of the while loop of _confirm_name on the line `response`.
confirm_name(proposed, response, reg) ==
    LET r == strip(response)
        custom_name == upper(r)
    IN  IF r = <<>> THEN upper(proposed)
        ELSE IF custom_name \in get_used_names(reg) THEN Reprompt
             ELSE custom_name

\* The test find_drive_in_registry makes on one location.
location_matches(location, drive_info) ==
    /\ location.kind = "external_drive"
    /\ \/ drive_info.volume_uuid # "" /\ location.volume_uuid = drive_info.volume_uuid
       \/ /\ drive_info.device_identifier # ""
          /\ location.device_identifier = drive_info.device_identifier

\* The for loop of find_drive_in_registry from position i on.
RECURSIVE find_from(_, _, _)
find_from(reg, drive_info, i) ==
    IF i > Len(reg) THEN 0
    ELSE IF location_matches(reg[i], drive_info) THEN i
         ELSE find_from(reg, drive_info, i + 1)

\* find_drive_in_registry: the index of the entry returned, 0 for None.
find_drive_in_registry(reg, drive_info) == find_from(reg, drive_info, 1)

\* The entry register_new_drive builds.
new_entry(drive_info, name, t) ==
    [id |-> upper(name), kind |-> "external_drive",
     volume_uuid |-> drive_info.volume_uuid,
     device_identifier |-> drive_info.device_identifier,
     name |-> name, capacity_bytes |-> drive_info.capacity_bytes,
     first_seen |-> t, last_scanned |-> t, status |-> "active"]

\* register_new_drive: the registry after the append.
register_new_drive(reg, drive_info, name, t) ==
    Append(reg, new_entry(drive_info, name, t))

\* The for loop of update_last_scanned from position i on: the first entry
\* with the id gets the timestamp, then break.
RECURSIVE update_from(_, _, _, _)
update_from(reg, id, t, i) ==
    IF i > Len(reg) THEN reg
    ELSE IF reg[i].id = id THEN [reg EXCEPT ![i].last_scanned = t]
         ELSE update_from(reg, id, t, i + 1)

\* update_last_scanned without the test `location['id'] == drive_id`.
update_last_scanned_all(reg, id, t) ==
    [i \in 1..Len(reg) |-> [reg[i] EXCEPT !.last_scanned = t]]

\* update_last_scanned: the registry after the update.
update_last_scanned(reg, id, t) == update_from(reg, id, t, 1)

\* _save_registry: the document written to drives.json.
save_registry(reg) == reg

\* -------------------------------------------------------------- TreeScanner

\* A directory tree is a record of sequences indexed by node (1 is the root):
\*   parent[n]  the directory holding n (0 for the root)
\*   kind[n]    "dir" or "file" (what is_dir() / is_file() answer)
\*   size[n]    st_size of a file
\*   err[n]     "ok"; "nolist": iterdir() of the directory raises
\*              PermissionError/OSError; "nostat": is_file(), is_dir() and
\*              stat() of the entry raise PermissionError/OSError
\*   order      the order in which the platform enumerates a directory
Root == 1

Nodes(t) == 1..Len(t.parent)

\* The smallest-first listing of a set of nodes.
RECURSIVE Ascending(_)
Ascending(S) ==
    IF S = {} THEN <<>>
    ELSE LET m == CHOOSE x \in S : \A y \in S : x <= y
         IN  <<m>> \o Ascending(S \ {m})

\* The largest-first listing of a set of nodes.
RECURSIVE Descending(_)
Descending(S) ==
    IF S = {} THEN <<>>
    ELSE LET m == CHOOSE x \in S : \A y \in S : x >= y
         IN  <<m>> \o Descending(S \ {m})

\* path.iterdir() of a listable directory: its entries in platform order.
iterdir(t, p) ==
    LET entries == { c \in Nodes(t) : t.parent[c] = p }
    IN  IF t.order = "asc" THEN Ascending(entries) ELSE Descending(entries)

\* Pair arithmetic for (total_size, file_count).
AddPair(a, b) == <<a[1] + b[1], a[2] + b[2]>>

\* get_dir_size_and_files, and the body of its for loop over `items`.
RECURSIVE get_dir_size_and_files(_, _)
RECURSIVE size_of_items(_, _)
\* size_of_items without the elif branch: subdirectories are not summed.
RECURSIVE size_of_items_flat(_, _)
size_of_items_flat(t, items) ==
    IF items = <<>> THEN <<0, 0>>
    ELSE LET item == Head(items)
             mine == IF t.err[item] = "nostat" THEN <<0, 0>>
                     ELSE IF t.kind[item] = "file" THEN <<t.size[item], 1>>
                     ELSE <<0, 0>>
         IN  AddPair(mine, size_of_items_flat(t, Tail(items)))

size_of_items(t, items) ==
    IF items = <<>> THEN <<0, 0>>
    ELSE LET item == Head(items)
             mine == IF t.err[item] = "nostat" THEN <<0, 0>>
                     ELSE IF t.kind[item] = "file" THEN <<t.size[item], 1>>
                     ELSE IF t.kind[item] = "dir"
                          THEN get_dir_size_and_files(t, item)
                          ELSE <<0, 0>>
         IN  AddPair(mine, size_of_items(t, Tail(items)))

get_dir_size_and_files(t, path) ==
    IF t.err[path] = "nolist" THEN <<0, 0>>
    ELSE size_of_items(t, iterdir(t, path))

\* The names of the nodes from the root (excluded) down to n.
RECURSIVE PathFromRoot(_, _)
PathFromRoot(t, n) ==
    IF n = Root THEN <<>>
    ELSE PathFromRoot(t, t.parent[n]) \o <<ToString(n)>>

\* str(current_path.relative_to(root)), '.' replaced by '/'.
relative_path(t, n) ==
    IF PathFromRoot(t, n) = <<>> THEN <<"/">> ELSE PathFromRoot(t, n)

\* The record scan_recursive appends for a directory.
dir_info(t, current_path, current_depth) ==
    LET sf == get_dir_size_and_files(t, current_path)
    IN  [relative_path |-> relative_path(t, current_path),
         depth |-> current_depth,
         size_bytes |-> sf[1], file_count |-> sf[2]]

\* scan_recursive: the records it appends to `directories`; scan_children is
\* its for loop over the entries `items` of a directory.  An exception
\* raised by iterdir() or by is_dir() leaves the loop of the directory being
\* listed and is caught by the except clauses of that call.
RECURSIVE scan_recursive(_, _, _, _)
RECURSIVE scan_children(_, _, _, _)
\* scan_recursive with both depth tests off by one: it emits and descends
\* one level too deep.
scan_recursive_one_deeper(t, md, current_path, current_depth) ==
    IF current_depth > md + 1 THEN <<>>
    ELSE <<dir_info(t, current_path, current_depth)>>
         \o (IF current_depth < md + 1 /\ t.err[current_path] # "nolist"
             THEN scan_children(t, md, iterdir(t, current_path), current_depth + 1)
             ELSE <<>>)

scan_children(t, md, items, depth) ==
    IF items = <<>> THEN <<>>
    ELSE LET item == Head(items)
         IN  IF t.err[item] = "nostat" THEN <<>>
             ELSE IF t.kind[item] = "dir"
                  THEN scan_recursive(t, md, item, depth)
                       \o scan_children(t, md, Tail(items), depth)
                  ELSE scan_children(t, md, Tail(items), depth)

scan_recursive(t, md, current_path, current_depth) ==
    IF current_depth > md THEN <<>>
    ELSE <<dir_info(t, current_path, current_depth)>>
         \o (IF current_depth < md /\ t.err[current_path] # "nolist"
             THEN scan_children(t, md, iterdir(t, current_path), current_depth + 1)
             ELSE <<>>)

\* scan_directory_tree
scan_directory_tree(t, md) == scan_recursive(t, md, Root, 0)

\* ------------------------------------------------------------- input trees

\* The parent maps of the trees with n nodes: node i hangs under an earlier node.
ParentMaps(n) ==
    { p \in [1..n -> 0..n] : p[Root] = 0 /\ \A i \in 2..n : p[i] \in 1..(i - 1) }

\* The kinds that fit a parent map: the root and every parent are directories.
KindMaps(n, p) ==
    { k \in [1..n -> {"dir", "file"}] :
        k[Root] = "dir" /\ \A i \in 2..n : k[p[i]] = "dir" }

\* File sizes: all files of distinct sizes, or empty and non-empty files.
SizeMaps(n, k) ==
    { [i \in 1..n |-> IF k[i] = "file" THEN i ELSE 0],
      [i \in 1..n |-> IF k[i] = "file" /\ i % 2 = 1 THEN 10 ELSE 0] }

\* Readability: every entry readable, or one entry unreadable (a file can
\* only fail to stat; the root is not tested by its own scan).
ErrMaps(n, k) ==
    { [i \in 1..n |-> "ok"] }
    \cup { [i \in 1..n |-> IF i = b THEN "nolist" ELSE "ok"] :
             b \in { i \in 1..n : k[i] = "dir" } }
    \cup { [i \in 1..n |-> IF i = b THEN "nostat" ELSE "ok"] : b \in 2..n }

TreesOfSize(n) ==
    UNION { UNION { { [parent |-> p, kind |-> k, size |-> s, err |-> e, order |-> o]
                      : s \in SizeMaps(n, k), e \in ErrMaps(n, k),
                        o \in {"asc", "desc"} }
                    : k \in KindMaps(n, p) }
            : p \in ParentMaps(n) }

\* The directory trees scan_directory_tree is run on.
Trees == UNION { TreesOfSize(n) : n \in 1..MaxNodes }

\* The tree under every mount point in the runs of scan_all_drives:
\* /a/b/file (10 bytes) and /a/file (4 bytes).
MountedTree ==
    [parent |-> <<0, 1, 2, 3, 2>>,
     kind   |-> <<"dir", "dir", "dir", "file", "file">>,
     size   |-> <<0, 0, 0, 10, 4>>,
     err    |-> <<"ok", "ok", "ok", "ok", "ok">>,
     order  |-> "asc"]

\* The volume descriptor (drive_info) get_external_drives builds for the
\* volume v listed at position i.
drive_info_of(v, i) ==
    [device_identifier |-> DeviceIdentifier(i), volume_uuid |-> v.volume_uuid,
     mount_point |-> "/Volumes/X", capacity_bytes |-> v.capacity_bytes]

\* The lists get_external_drives can return: at most MaxDrives attached
\* volumes, each physical volume at most once; the empty list also stands
\* for a failed diskutil call.
DriveLists ==
    { [i \in 1..Len(vs) |-> drive_info_of(vs[i], i)] :
        vs \in { ws \in UNION { [1..n -> Volumes] : n \in 0..MaxDrives } :
                   \A i, j \in 1..Len(ws) : i # j => ws[i] # ws[j] } }

\* --------------------------------------------------------------- Orchestrator

\* The state after DriveScanner() has been constructed for the first time:
\* naming_rules.json loaded, drives.json missing, so created empty and saved.
Init ==
    /\ naming_rules \in RuleSets
    /\ registry = <<>>
    /\ disk = save_registry(<<>>)
    /\ snapshots = <<>>
    /\ drives = <<>>
    /\ idx = 0
    /\ pc = "idle"
    /\ existing_entry = 0
    /\ proposed_name = None
    /\ drive_id = None
    /\ directories = <<>>
    /\ tree = MountedTree
    /\ max_depth = ScanDepth
    /\ now = 0
    /\ runs = 0

\* Where the for loop of scan_all_drives stands after the volume at idx.
AfterVolume ==
    /\ idx' = idx + 1
    /\ pc' = IF idx + 1 > Len(drives) THEN "done" ELSE "resolve"

\* A run of the program: DriveScanner() loads the registry from drives.json,
\* scan_all_drives asks get_external_drives for the attached volumes and
\* returns at once when there are none.
StartRun ==
    /\ pc \in {"idle", "done", "aborted", "stopped"}
    /\ runs < MaxRuns
    /\ runs' = runs + 1
    /\ registry' = disk
    /\ \E ds \in DriveLists :
          /\ drives' = ds
          /\ idx' = 1
          /\ pc' = IF ds = <<>> THEN "done" ELSE "resolve"
    /\ existing_entry' = 0
    /\ proposed_name' = None
    /\ drive_id' = None
    /\ directories' = <<>>
    /\ UNCHANGED <<naming_rules, disk, snapshots, tree, max_depth, now>>

\* scan_all_drives, the volume is found in the registry: a known drive.
ResolveKnown ==
    /\ pc = "resolve"
    /\ LET e == find_drive_in_registry(registry, drives[idx])
       IN  /\ e # 0
           /\ existing_entry' = e
           /\ drive_id' = registry[e].id
    /\ pc' = "scan"
    /\ UNCHANGED <<naming_rules, registry, disk, snapshots, drives, idx,
                   proposed_name, directories, tree, max_depth, now, runs>>

\* scan_all_drives, the volume is not in the registry and a name is proposed.
ResolveNew ==
    /\ pc = "resolve"
    /\ find_drive_in_registry(registry, drives[idx]) = 0
    /\ LET p == get_available_name(naming_rules, registry,
                                   drives[idx].capacity_bytes)
       IN  /\ p # None /\ p # <<>>
           /\ proposed_name' = p
    /\ existing_entry' = 0
    /\ pc' = "confirm"
    /\ UNCHANGED <<naming_rules, registry, disk, snapshots, drives, idx,
                   drive_id, directories, tree, max_depth, now, runs>>

\* ResolveSkip with `return` in place of `continue`: the run ends.
ResolveSkipEndsRun ==
    /\ pc = "resolve"
    /\ find_drive_in_registry(registry, drives[idx]) = 0
    /\ LET p == get_available_name(naming_rules, registry,
                                   drives[idx].capacity_bytes)
       IN  /\ p = None \/ p = <<>>
           /\ proposed_name' = p
    /\ existing_entry' = 0
    /\ idx' = idx + 1
    /\ pc' = "done"
    /\ UNCHANGED <<naming_rules, registry, disk, snapshots, drives,
                   drive_id, directories, tree, max_depth, now, runs>>

\* scan_all_drives, the volume is not in the registry and `not proposed_name`
\* holds: "No available names", continue with the next volume.
ResolveSkip ==
    /\ pc = "resolve"
    /\ find_drive_in_registry(registry, drives[idx]) = 0
    /\ LET p == get_available_name(naming_rules, registry,
                                   drives[idx].capacity_bytes)
       IN  /\ p = None \/ p = <<>>
           /\ proposed_name' = p
    /\ existing_entry' = 0
    /\ AfterVolume
    /\ UNCHANGED <<naming_rules, registry, disk, snapshots, drives,
                   drive_id, directories, tree, max_depth, now, runs>>

\* _confirm_name rejects the line typed and prompts again.
ConfirmRejected(response) ==
    /\ pc = "confirm"
    /\ confirm_name(proposed_name, response, registry) = Reprompt
    /\ UNCHANGED vars

\* ConfirmAndRegister without the self._save_registry() of register_new_drive.
ConfirmAndRegisterUnsaved(response) ==
    /\ pc = "confirm"
    /\ LET confirmed_name == confirm_name(proposed_name, response, registry)
       IN  /\ confirmed_name # Reprompt
           /\ registry' = register_new_drive(registry, drives[idx],
                                             confirmed_name, now)
           /\ drive_id' = upper(confirmed_name)
    /\ now' = now + 1
    /\ pc' = "scan"
    /\ UNCHANGED <<naming_rules, disk, snapshots, drives, idx, existing_entry,
                   proposed_name, directories, tree, max_depth, runs>>

\* _confirm_name returns a name and register_new_drive appends the entry
\* and saves the registry; the scan is next.
ConfirmAndRegister(response) ==
    /\ pc = "confirm"
    /\ LET confirmed_name == confirm_name(proposed_name, response, registry)
       IN  /\ confirmed_name # Reprompt
           /\ registry' = register_new_drive(registry, drives[idx],
                                             confirmed_name, now)
           /\ drive_id' = upper(confirmed_name)
    /\ disk' = save_registry(registry')
    /\ now' = now + 1
    /\ pc' = "scan"
    /\ UNCHANGED <<naming_rules, snapshots, drives, idx, existing_entry,
                   proposed_name, directories, tree, max_depth, runs>>

\* scan_directory_tree(drive_info['mount_point'], max_depth=2)
ScanVolume ==
    /\ pc = "scan"
    /\ max_depth' = ScanDepth
    /\ directories' = scan_directory_tree(tree, ScanDepth)
    /\ pc' = "snapshot"
    /\ UNCHANGED <<naming_rules, registry, disk, snapshots, drives, idx,
                   existing_entry, proposed_name, drive_id, tree, now, runs>>

\* The calendar day of a clock value (strftime('%Y-%m-%d')).
Date(t) == t \div TicksPerDay

\* The file save_snapshot writes and its content.
snapshot_file(id, t) == <<id, Date(t)>>

snapshot(id, drive_info, dirs, t) ==
    [filename |-> snapshot_file(id, t), drive_id |-> id, scan_date |-> t,
     drive_info |-> drive_info, directories |-> dirs]

\* The snapshot files after save_snapshot: the day's file of the drive is
\* overwritten, any other file is kept.
RECURSIVE write_snapshot(_, _)
write_snapshot(files, snap) ==
    IF files = <<>> THEN <<snap>>
    ELSE IF Head(files).filename = snap.filename
         THEN <<snap>> \o Tail(files)
         ELSE <<Head(files)>> \o write_snapshot(Tail(files), snap)

\* save_snapshot writes the file.
SaveSnapshot ==
    /\ pc = "snapshot"
    /\ snapshots' = write_snapshot(snapshots,
                        snapshot(drive_id, drives[idx], directories, now))
    /\ now' = now + 1
    /\ pc' = "update"
    /\ UNCHANGED <<naming_rules, registry, disk, drives, idx, existing_entry,
                   proposed_name, drive_id, directories, tree, max_depth, runs>>

\* save_snapshot: mkdir() or open() raises OSError; nothing in save_snapshot,
\* scan_all_drives or main catches it, and the process ends with a traceback.
SaveSnapshotRaises ==
    /\ pc = "snapshot"
    /\ pc' = "aborted"
    /\ UNCHANGED <<naming_rules, registry, disk, snapshots, drives, idx,
                   existing_entry, proposed_name, drive_id, directories, tree,
                   max_depth, now, runs>>

\* update_last_scanned(drive_id), then print_summary and the next volume.
UpdateLastScanned ==
    /\ pc = "update"
    /\ registry' = update_last_scanned(registry, drive_id, now)
    /\ disk' = save_registry(registry')
    /\ now' = now + 1
    /\ AfterVolume
    /\ UNCHANGED <<naming_rules, snapshots, drives, existing_entry,
                   proposed_name, drive_id, directories, tree, max_depth, runs>>

\* The process is stopped from outside (interrupt, power loss) in the middle
\* of the scan or at the snapshot write.
Stop ==
    /\ pc \in {"scan", "snapshot"}
    /\ pc' = "stopped"
    /\ UNCHANGED <<naming_rules, registry, disk, snapshots, drives, idx,
                   existing_entry, proposed_name, drive_id, directories, tree,
                   max_depth, now, runs>>

Next ==
    \/ StartRun
    \/ ResolveKnown
    \/ ResolveNew
    \/ ResolveSkip
    \/ \E response \in Responses : ConfirmRejected(response)
    \/ \E response \in Responses : ConfirmAndRegister(response)
    \/ ScanVolume
    \/ SaveSnapshot
    \/ SaveSnapshotRaises
    \/ UpdateLastScanned
    \/ Stop

Spec == Init /\ [][Next]_vars

\* ------------------------------------------- scan_directory_tree on its own

\* scan_directory_tree applied to any tree of Trees with any max_depth.
InitScan ==
    /\ naming_rules = CHOOSE r \in RuleSets : TRUE
    /\ registry = <<>>
    /\ disk = <<>>
    /\ snapshots = <<>>
    /\ drives = <<>>
    /\ idx = 0
    /\ pc = "idle"
    /\ existing_entry = 0
    /\ proposed_name = None
    /\ drive_id = None
    /\ directories = <<>>
    /\ tree \in Trees
    /\ max_depth = 0
    /\ now = 0
    /\ runs = 0

ScanTree(md) ==
    /\ pc = "idle"
    /\ max_depth' = md
    /\ directories' = scan_directory_tree(tree, md)
    /\ pc' = "scanned"
    /\ UNCHANGED <<naming_rules, registry, disk, snapshots, drives, idx,
                   existing_entry, proposed_name, drive_id, tree, now, runs>>

NextScan == \E md \in 0..MaxDepthArg : ScanTree(md)

SpecScan == InitScan /\ [][NextScan]_vars

\* ===================================================================== claims

\* ---- helpers that state the claims (independent of the scanning code)

Ids(reg) == { reg[i].id : i \in 1..Len(reg) }

\* The entries of reg a descriptor matches by volume UUID.
UuidMatches(reg, d) ==
    { i \in 1..Len(reg) : /\ reg[i].kind = "external_drive"
                          /\ d.volume_uuid # ""
                          /\ reg[i].volume_uuid = d.volume_uuid }

\* The entries of reg a descriptor matches by device identifier.
DeviceMatches(reg, d) ==
    { i \in 1..Len(reg) : /\ reg[i].kind = "external_drive"
                          /\ d.device_identifier # ""
                          /\ reg[i].device_identifier = d.device_identifier }

\* The pool of the tier a capacity falls in, by the threshold ordering.
TierPool(rules, c) ==
    CASE c >= rules.large_drive_threshold_tb * TiB -> rules.large_names
      [] /\ c < rules.large_drive_threshold_tb * TiB
         /\ c >= rules.medium_drive_threshold_tb * TiB -> rules.medium_names
      [] OTHER -> rules.small_names

\* Every name of the pool is used.
Exhausted(pool, reg) == \A k \in 1..Len(pool) : upper(pool[k]) \in Ids(reg)

\* r is the first name of the pool, in pool order, whose upper form is free.
FirstFree(pool, reg, r) ==
    \E k \in 1..Len(pool) :
        /\ pool[k] = r
        /\ upper(pool[k]) \notin Ids(reg)
        /\ \A j \in 1..(k - 1) : upper(pool[j]) \in Ids(reg)

\* Two entries agree on every field but last_scanned.
SameButLastScanned(a, b) == [a EXCEPT !.last_scanned = 0] = [b EXCEPT !.last_scanned = 0]

RECURSIVE Depth(_, _)
Depth(t, n) == IF n = Root THEN 0 ELSE 1 + Depth(t, t.parent[n])

\* n is a or lies beneath a.
RECURSIVE Under(_, _, _)
Under(t, n, a) == n = a \/ (n # Root /\ Under(t, t.parent[n], a))

Dirs(t) == { n \in Nodes(t) : t.kind[n] = "dir" }
Files(t) == { n \in Nodes(t) : t.kind[n] = "file" }
FilesUnder(t, a) == { n \in Files(t) : Under(t, n, a) }

RECURSIVE SumSize(_, _)
SumSize(t, S) ==
    IF S = {} THEN 0
    ELSE LET n == CHOOSE x \in S : TRUE IN t.size[n] + SumSize(t, S \ {n})

FullyReadable(t) == \A n \in Nodes(t) : t.err[n] = "ok"

\* The positions in `directories` of the records of directory n.
RecordsOf(n) ==
    { k \in 1..Len(directories) :
        directories[k].relative_path = relative_path(tree, n) }

\* ---- C1
\* C1: registry id uniqueness.  After any sequence of volume processings
\* starting from an empty registry, no two entries of the registry (in memory
\* or in drives.json) have ids that are equal when compared without regard
\* to case.
C1_IdsUnique ==
    /\ \A i, j \in 1..Len(registry) :
          i # j => upper(registry[i].id) # upper(registry[j].id)
    /\ \A i, j \in 1..Len(disk) :
          i # j => upper(disk[i].id) # upper(disk[j].id)

\* A drive has just been registered under a custom name, although a line
\* typed at the prompt could have named an id already in the registry.
C1_Witness ==
    /\ pc = "scan" /\ existing_entry = 0
    /\ Len(registry) >= 2
    /\ drive_id # upper(proposed_name)
    /\ \E r \in Responses :
          /\ strip(r) # <<>>
          /\ upper(strip(r)) \in { registry[i].id : i \in 1..(Len(registry) - 1) }

\* ---- C2
\* C2: UUID-first identity resolution.  When the volume's non-empty UUID
\* equals the volume_uuid of an external_drive entry E, the lookup returns
\* E, whatever the device identifier and the order of the entries.
C2_UuidFirst ==
    (/\ pc = "scan" /\ existing_entry # 0
     /\ UuidMatches(registry, drives[idx]) # {})
    => /\ existing_entry \in UuidMatches(registry, drives[idx])
       /\ drive_id = registry[existing_entry].id

\* ---- C3
\* C3: name proposal.  For every capacity and the ids in use, the name
\* _get_available_name returns is the first name, in pool order, of the
\* pool of the tier the capacity falls in whose upper form is not in use; it
\* is None exactly when every name of that pool is in use; the name proposed
\* for the volume being resolved is that name.
C3_NameProposal ==
    /\ \A c \in Capacities :
          LET r == get_available_name(naming_rules, registry, c)
              pool == TierPool(naming_rules, c)
          IN  /\ r = None <=> Exhausted(pool, registry)
              /\ r # None => FirstFree(pool, registry, r)
    /\ pc = "confirm" =>
          FirstFree(TierPool(naming_rules, drives[idx].capacity_bytes),
                    registry, proposed_name)

\* A name is proposed that is not the first of its pool: the names before
\* it are in use.
C3_Witness ==
    /\ pc = "confirm"
    /\ LET pool == TierPool(naming_rules, drives[idx].capacity_bytes)
       IN  Len(pool) >= 2 /\ proposed_name # pool[1]

\* ---- C4
\* C4: pool exhaustion skips the volume.  When the volume being resolved
\* matches no entry and every name of its tier's pool is in use, the step
\* leaves the registry (in memory and in drives.json), the snapshot files
\* and the scan result unchanged, enters neither the prompt nor the scan,
\* and the loop stands at the next volume of the run (or the run is done
\* when there is none).
C4_ExhaustionSkipsVolume ==
    [][ (/\ pc = "resolve"
         /\ UuidMatches(registry, drives[idx]) = {}
         /\ DeviceMatches(registry, drives[idx]) = {}
         /\ Exhausted(TierPool(naming_rules, drives[idx].capacity_bytes),
                      registry))
        => /\ registry' = registry /\ disk' = disk
           /\ snapshots' = snapshots /\ directories' = directories
           /\ drives' = drives /\ idx' = idx + 1
           /\ pc' = IF idx' <= Len(drives) THEN "resolve" ELSE "done" ]_vars

\* A volume was skipped for lack of a name and the next volume of the run is
\* being resolved.
C4_Witness ==
    /\ pc = "resolve" /\ idx >= 2 /\ proposed_name = None
    /\ UuidMatches(registry, drives[idx - 1]) = {}
    /\ DeviceMatches(registry, drives[idx - 1]) = {}
    /\ Exhausted(TierPool(naming_rules, drives[idx - 1].capacity_bytes), registry)

\* ---- C5
\* C5: depth-bounded emission.  For a fully readable tree and max_depth >= 0,
\* scan_directory_tree returns exactly one record for each directory at
\* depth <= max_depth, carrying that directory's depth, and no other record.
C5_DepthBoundedEmission ==
    (pc = "scanned" /\ FullyReadable(tree)) =>
        LET emitted == { n \in Dirs(tree) : Depth(tree, n) <= max_depth }
        IN  /\ \A n \in emitted :
                  /\ Cardinality(RecordsOf(n)) = 1
                  /\ \A k \in RecordsOf(n) : directories[k].depth = Depth(tree, n)
            /\ \A n \in Nodes(tree) \ emitted : RecordsOf(n) = {}
            /\ Len(directories) = Cardinality(emitted)

\* A readable tree with a directory below max_depth and one at max_depth.
C5_Witness ==
    /\ pc = "scanned" /\ FullyReadable(tree)
    /\ max_depth >= 1 /\ Len(directories) >= 2
    /\ \E n \in Dirs(tree) : Depth(tree, n) > max_depth

C7_AppendOnly ==
    [][ /\ Len(registry') >= Len(registry)
        /\ Len(disk') >= Len(disk)
        /\ \A i \in 1..Len(registry) :
              /\ SameButLastScanned(registry[i], registry'[i])
              /\ registry'[i].last_scanned # registry[i].last_scanned
                    => /\ registry[i].id = drive_id
                       /\ existing_entry # 0 => i = existing_entry
        /\ \A i \in 1..Len(disk) :
              /\ SameButLastScanned(disk[i], disk'[i])
              /\ disk'[i].last_scanned # disk[i].last_scanned
                    => disk[i].id = drive_id
        /\ (pc = "resolve" /\ pc' = "scan")
              => registry' = registry /\ disk' = disk ]_vars

\* A known drive among several entries has had its last_scanned updated.
C7_Witness ==
    /\ pc \in {"resolve", "done"}
    /\ Len(registry) >= 2
    /\ existing_entry # 0
    /\ registry[existing_entry].id = drive_id
    /\ registry[existing_entry].last_scanned = now - 1
    /\ \E j \in 1..Len(registry) : registry[j].last_scanned < now - 1

\* ---- C8
\* C8: durability before scanning.  From the moment the tree scan of a newly
\* registered volume is about to begin, through the scan and the snapshot
\* write, and in a run that stops or aborts there, drives.json holds the
\* entry with the assigned id for that volume.
C8_DurableBeforeScan ==
    (/\ pc \in {"scan", "snapshot", "update", "stopped", "aborted"}
     /\ existing_entry = 0)
    => \E i \in 1..Len(disk) :
          /\ disk[i].id = drive_id
          /\ disk[i].volume_uuid = drives[idx].volume_uuid
          /\ disk[i].device_identifier = drives[idx].device_identifier

\* A run stopped in the middle of the scan of a newly registered volume.
C8_Witness ==
    /\ pc = "stopped" /\ existing_entry = 0 /\ drive_id # None

\* ---- C9
\* C9: error containment per volume.  No filesystem error raised while a
\* volume is processed (tree scan, snapshot write) terminates the run.
C9_ErrorContained == pc # "aborted"

\* ---- C10
\* C10: sibling continuation on directory errors.  When a child entry of an
\* emitted directory at depth < max_depth is unreadable, every readable
\* sibling directory of that child still gets its own record, and the
\* parent's aggregate omits only the inaccessible subtree.
C10_SiblingContinuation ==
    pc = "scanned" =>
        \A p \in Dirs(tree) : \A c \in Nodes(tree) :
            (/\ RecordsOf(p) # {} /\ Depth(tree, p) < max_depth
             /\ tree.parent[c] = p /\ tree.err[c] # "ok")
            => /\ \A s \in Dirs(tree) :
                     (tree.parent[s] = p /\ s # c /\ tree.err[s] = "ok")
                     => Cardinality(RecordsOf(s)) = 1
               /\ \A k \in RecordsOf(p) :
                     LET kept == { f \in FilesUnder(tree, p) : ~Under(tree, f, c) }
                     IN  /\ directories[k].size_bytes = SumSize(tree, kept)
                         /\ directories[k].file_count = Cardinality(kept)

====
